---- MODULE Spec2Model ----
(***************************************************************************)
(* A model of hn-client (package hn).                                      *)
(*                                                                         *)
(*  - ItemService.List: the fan-out of one fetch task per ID through an    *)
(*    errgroup with a worker limit, the collector goroutine that drains    *)
(*    the 'processed' channel into itemsMap, and the main goroutine that   *)
(*    waits, closes the channel and re-orders the result.                  *)
(*  - To / ToList: the narrowing of an Item to one of the six variants.    *)
(*  - Sort, SortID, SortScore, SortTime, SortType: the stable sorts.       *)
(*                                                                         *)
(* errgroup (golang.org/x/sync/errgroup) is modelled by what its calls do  *)
(* at the places List uses them: SetLimit(n) gives a semaphore of n        *)
(* tokens (none when n < 0), Go blocks until a token is free, a task that  *)
(* returns an error records it once and cancels the shared context, and    *)
(* Wait cancels the context after all tasks returned.                      *)
(***************************************************************************)
EXTENDS Integers, Sequences, FiniteSets, TLC

\* ------------------------------------------------------------------ bounds
MaxLen == 3      \* longest ID list of the small retrievals
LongExtra == 2   \* the long retrieval has ProcessedCap + LongExtra IDs
CapIds == 10     \* the capped retrieval has CapIds IDs
MaxConvId == 2   \* Items given to To and ToList have IDs 1..MaxConvId
MaxConvLen == 3  \* longest Item list given to ToList
MaxSortLen == 4  \* longest slice given to the Sort* functions

\* ------------------------------------------------------- program constants
ProcessedCap == 10   \* make(chan Item, 10)
DefaultWorkers == -1 \* maxWorkers = -1

StoryType == "story"
CommentType == "comment"
AskType == "ask"
JobType == "job"
PollType == "poll"
PollOptionType == "pollopt"

\* A tag that no variant has.
OtherTags == {"foo"}

Variants == {"Story", "Comment", "Ask", "Job", "Poll", "PollOption"}

\* ------------------------------------------------------------------- items
\* The Item the upstream holds for an ID: every field set, so that a
\* projection that drops or keeps the wrong field shows.
MakeItem(id, type) ==
    [ID |-> id, By |-> "u", Score |-> id, Time |-> id, Type |-> type,
     Descendants |-> 1, Parts |-> <<id>>, Parent |-> id + 1, Kids |-> <<id>>,
     Text |-> "text", Title |-> "title", Poll |-> id + 2, URL |-> "url"]

\* The type of the record the upstream holds for an ID (odd: story,
\* even: comment), as in the example [5,6,7] -> [story, comment, story].
TypeOf(id) == IF id % 2 = 1 THEN StoryType ELSE CommentType

UpstreamItem(id) == MakeItem(id, TypeOf(id))

\* ------------------------------------------------------------------ errors
NoErr == [kind |-> "nil", task |-> 0]
ErrNotFound == [kind |-> "notfound", task |-> 0]
\* a transport or decode error of task i's fetch (each one its own value)
FatalErr(i) == [kind |-> "fatal", task |-> i]
\* the error of a fetch whose context was cancelled
CanceledErr(i) == [kind |-> "canceled", task |-> i]

NilResult == [isNil |-> TRUE, elems |-> <<>>]
Result(s) == [isNil |-> FALSE, elems |-> s]

VARIABLES
    ids,         \* List's argument ids
    filter,      \* List's argument filter: "nil" or the type tag it accepts
    maxWorkers,  \* the package variable maxWorkers
    mainPc,      \* where the goroutine that called List is
    next,        \* index of the next ID of the loop that starts the tasks
    pc,          \* pc[i]: where the task of ids[i] is
    res,         \* res[i]: the error s.Get returned in task i (NoErr: none)
    processed,   \* the buffered channel 'processed'
    closed,      \* close(processed) has run
    collPc,      \* the collector goroutine: "idle", "run", "exit"
    itemsMap,    \* itemsMap
    ctxDone,     \* the errgroup's context is cancelled
    gerr,        \* the errgroup's recorded error
    ret,         \* what List returned: [items, err]
    call         \* the last To / ToList call and its result

vars == <<ids, filter, maxWorkers, mainPc, next, pc, res, processed, closed,
          collPc, itemsMap, ctxDone, gerr, ret, call>>

listVars == <<ids, filter, maxWorkers, mainPc, next, pc, res, processed,
              closed, collPc, itemsMap, ctxDone, gerr, ret>>

Tasks == 1..Len(ids)

NoRet == [items |-> NilResult, err |-> NoErr]
NoCall == [op |-> "none"]

\* --------------------------------------------------------- List: helpers
\* if filter != nil && filter(item) {send} else if filter == nil {send}
Include(item) ==
    IF filter # "nil" /\ item.Type = filter THEN TRUE
    ELSE IF filter = "nil" THEN TRUE
    ELSE FALSE

\* tasks that g.Go started and whose function has not returned to the group
InFlight == Cardinality({i \in Tasks : pc[i] \in {"get", "send", "ret"}})

\* g.SetLimit(maxWorkers): a negative limit is no limit, otherwise g.Go
\* blocks until one of the maxWorkers tokens is free
GoAdmitsNoLimit == TRUE
GoAdmits == maxWorkers < 0 \/ InFlight < maxWorkers

\* errOnce.Do(func() { g.err = err; cancel() }): the first error stays
RecordErrLast(e) == e
RecordErr(e) == IF gerr = NoErr THEN e ELSE gerr

\* what s.Get can return in task i when its request was sent while the
\* context was live: what the upstream answers, or, once the context is
\* cancelled, the cancellation error
GetOutcomes(i) ==
    {NoErr, ErrNotFound, FatalErr(i)}
        \cup (IF ctxDone THEN {CanceledErr(i)} ELSE {})

\* for _, id := range ids { if item, ok := itemsMap[id]; ok { append } }
RECURSIVE Reorder(_, _)
RECURSIVE ReorderPrepend(_, _)
ReorderPrepend(s, m) ==
    IF s = <<>> THEN <<>>
    ELSE ReorderPrepend(Tail(s), m)
             \o (IF Head(s) \in DOMAIN m THEN <<m[Head(s)]>> ELSE <<>>)
Reorder(s, m) ==
    IF s = <<>> THEN <<>>
    ELSE (IF Head(s) \in DOMAIN m THEN <<m[Head(s)]>> ELSE <<>>)
             \o Reorder(Tail(s), m)

\* itemsMap[item.ID] = item
MapPut(m, item) ==
    [k \in DOMAIN m \cup {item.ID} |-> IF k = item.ID THEN item ELSE m[k]]

\* --------------------------------------------------------- List: actions
\* len(ids) == 0 returns at once; otherwise the channels and the group are
\* made and the collector goroutine is started
ListStart ==
    /\ mainPc = "start"
    /\ IF Len(ids) = 0
         THEN /\ mainPc' = "returned"
              /\ ret' = [items |-> Result(<<>>), err |-> NoErr]
              /\ collPc' = collPc
         ELSE /\ mainPc' = "loop"
              /\ collPc' = "run"
              /\ ret' = ret
    /\ UNCHANGED <<ids, filter, maxWorkers, next, pc, res, processed, closed,
                   itemsMap, ctxDone, gerr, call>>

\* g.Go(func): takes a token when there is a limit and starts the task. The
\* task calls s.Get at once: a request made on a cancelled context fails
\* with the context's error without being sent.
GoTask ==
    /\ mainPc = "loop"
    /\ next <= Len(ids)
    /\ GoAdmits
    /\ IF ctxDone
         THEN /\ pc' = [pc EXCEPT ![next] = "ret"]
              /\ res' = [res EXCEPT ![next] = CanceledErr(next)]
         ELSE /\ pc' = [pc EXCEPT ![next] = "get"]
              /\ res' = res
    /\ next' = next + 1
    /\ mainPc' = IF next = Len(ids) THEN "wait" ELSE "loop"
    /\ UNCHANGED <<ids, filter, maxWorkers, processed, closed, collPc,
                   itemsMap, ctxDone, gerr, ret, call>>

\* item, err := s.Get(ctx, id); if err != nil { return err }; then the
\* filter decides whether the task sends the item
GetReturn(i) ==
    /\ pc[i] = "get"
    /\ \E e \in GetOutcomes(i) :
         /\ res' = [res EXCEPT ![i] = e]
         /\ pc' = [pc EXCEPT ![i] =
                      IF e = NoErr /\ Include(UpstreamItem(ids[i]))
                        THEN "send" ELSE "ret"]
    /\ UNCHANGED <<ids, filter, maxWorkers, mainPc, next, processed, closed,
                   collPc, itemsMap, ctxDone, gerr, ret, call>>

\* processed <- item: blocks while the buffer is full
TaskSend(i) ==
    /\ pc[i] = "send"
    /\ ~closed
    /\ Len(processed) < ProcessedCap
    /\ processed' = Append(processed, UpstreamItem(ids[i]))
    /\ pc' = [pc EXCEPT ![i] = "ret"]
    /\ UNCHANGED <<ids, filter, maxWorkers, mainPc, next, res, closed,
                   collPc, itemsMap, ctxDone, gerr, ret, call>>

\* the task's function returns to the group: an error is recorded (once)
\* and cancels the context; the token is given back
TaskReturn(i) ==
    /\ pc[i] = "ret"
    /\ pc' = [pc EXCEPT ![i] = "done"]
    /\ IF res[i] # NoErr
         THEN /\ gerr' = RecordErr(res[i])
              /\ ctxDone' = TRUE
         ELSE UNCHANGED <<gerr, ctxDone>>
    /\ UNCHANGED <<ids, filter, maxWorkers, mainPc, next, res, processed,
                   closed, collPc, itemsMap, ret, call>>

\* case item, ok := <-processed, ok: itemsMap[item.ID] = item
CollectorRecv ==
    /\ collPc = "run"
    /\ Len(processed) > 0
    /\ itemsMap' = MapPut(itemsMap, Head(processed))
    /\ processed' = Tail(processed)
    /\ UNCHANGED <<ids, filter, maxWorkers, mainPc, next, pc, res, closed,
                   collPc, ctxDone, gerr, ret, call>>

\* case item, ok := <-processed, !ok: return (defer close(wait))
CollectorClosed ==
    /\ collPc = "run"
    /\ closed
    /\ Len(processed) = 0
    /\ collPc' = "exit"
    /\ UNCHANGED <<ids, filter, maxWorkers, mainPc, next, pc, res, processed,
                   closed, itemsMap, ctxDone, gerr, ret, call>>

\* case <-ctx.Done(): return (defer close(wait)). select takes any ready
\* case, so this one can be taken while 'processed' still holds items.
CollectorCancel ==
    /\ collPc = "run"
    /\ ctxDone
    /\ collPc' = "exit"
    /\ UNCHANGED <<ids, filter, maxWorkers, mainPc, next, pc, res, processed,
                   closed, itemsMap, ctxDone, gerr, ret, call>>

\* if err := g.Wait(); err != nil { return nil, err }: Wait returns when
\* every task has returned, cancels the context and gives the first error
MainWaitDropsErr ==
    /\ mainPc = "wait"
    /\ \A i \in Tasks : pc[i] = "done"
    /\ ctxDone' = TRUE
    /\ mainPc' = "close"
    /\ UNCHANGED <<ids, filter, maxWorkers, next, pc, res, processed, closed,
                   collPc, itemsMap, gerr, ret, call>>
MainWait ==
    /\ mainPc = "wait"
    /\ \A i \in Tasks : pc[i] = "done"
    /\ ctxDone' = TRUE
    /\ IF gerr # NoErr
         THEN /\ mainPc' = "returned"
              /\ ret' = [items |-> NilResult, err |-> gerr]
         ELSE /\ mainPc' = "close"
              /\ ret' = ret
    /\ UNCHANGED <<ids, filter, maxWorkers, next, pc, res, processed, closed,
                   collPc, itemsMap, gerr, call>>

\* close(processed)
MainClose ==
    /\ mainPc = "close"
    /\ closed' = TRUE
    /\ mainPc' = "recv"
    /\ UNCHANGED <<ids, filter, maxWorkers, next, pc, res, processed, collPc,
                   itemsMap, ctxDone, gerr, ret, call>>

\* <-wait, then the items of itemsMap in the order of ids
MainCollect ==
    /\ mainPc = "recv"
    /\ collPc = "exit"
    /\ ret' = [items |-> Result(Reorder(ids, itemsMap)), err |-> NoErr]
    /\ mainPc' = "returned"
    /\ UNCHANGED <<ids, filter, maxWorkers, next, pc, res, processed, closed,
                   collPc, itemsMap, ctxDone, gerr, call>>

\* ------------------------------------------------------- To and ToList
\* C.Type(): the fixed tag of each variant
TagOf(C) ==
    CASE C = "Story" -> StoryType
      [] C = "Comment" -> CommentType
      [] C = "Ask" -> AskType
      [] C = "Job" -> JobType
      [] C = "Poll" -> PollType
      [] C = "PollOption" -> PollOptionType

KnownTags == {TagOf(C) : C \in Variants}

\* item.baseItem
BaseOf(item) ==
    [ID |-> item.ID, By |-> item.By, Score |-> item.Score,
     Time |-> item.Time, Type |-> item.Type]

ZeroBase == [ID |-> 0, By |-> "", Score |-> 0, Time |-> 0, Type |-> ""]

ToComment(item) ==
    [variant |-> "Comment", base |-> BaseOf(item), Kids |-> item.Kids,
     Parent |-> item.Parent, Text |-> item.Text]

ToStory(item) ==
    [variant |-> "Story", base |-> BaseOf(item),
     Descendants |-> item.Descendants, Kids |-> item.Kids,
     Text |-> item.Text, Title |-> item.Title, URL |-> item.URL]

ToAsk(item) ==
    [variant |-> "Ask", base |-> BaseOf(item),
     Descendants |-> item.Descendants, Kids |-> item.Kids,
     Text |-> item.Text, Title |-> item.Title]

ToJob(item) ==
    [variant |-> "Job", base |-> BaseOf(item), Text |-> item.Text,
     Title |-> item.Title, URL |-> item.URL]

ToPoll(item) ==
    [variant |-> "Poll", base |-> BaseOf(item),
     Descendants |-> item.Descendants, Kids |-> item.Kids,
     Parts |-> item.Parts, Text |-> item.Text, Title |-> item.Title]

ToPollOption(item) ==
    [variant |-> "PollOption", base |-> BaseOf(item), Poll |-> item.Poll,
     Text |-> item.Text]

\* the zero value of C that To returns beside an error
ZeroOf(C) == [variant |-> C, base |-> ZeroBase]

\* the map 'converters': its keys, and what the function under a key does
ConverterKeys ==
    {StoryType, CommentType, AskType, JobType, PollType, PollOptionType}

Converter(tag, item) ==
    CASE tag = StoryType -> ToStory(item)
      [] tag = CommentType -> ToComment(item)
      [] tag = AskType -> ToAsk(item)
      [] tag = JobType -> ToJob(item)
      [] tag = PollType -> ToPoll(item)
      [] tag = PollOptionType -> ToPollOption(item)

\* To[C](item): the tag is compared with C's first, the converter is looked
\* up second; fn(item).(C) panics when the converter made another variant
To(C, item) ==
    IF item.Type # TagOf(C)
      THEN [val |-> ZeroOf(C), err |-> "mismatched", panic |-> FALSE]
    ELSE IF item.Type \notin ConverterKeys
      THEN [val |-> ZeroOf(C), err |-> "unsupported", panic |-> FALSE]
    ELSE LET v == Converter(item.Type, item)
         IN [val |-> v, err |-> "nil", panic |-> v.variant # C]

\* ToList[C](items): items whose To fails are skipped (continue)
RECURSIVE ToList(_, _)
RECURSIVE ToListBreak(_, _)
ToListBreak(C, items) ==
    IF items = <<>> THEN <<>>
    ELSE LET r == To(C, Head(items))
         IN IF r.err # "nil" THEN <<>>
            ELSE <<r.val>> \o ToListBreak(C, Tail(items))
ToList(C, items) ==
    IF items = <<>> THEN <<>>
    ELSE LET r == To(C, Head(items))
         IN (IF r.err # "nil" THEN <<>> ELSE <<r.val>>)
                \o ToList(C, Tail(items))

\* a call of To[C](item); the functions keep no state, so a behaviour
\* observes one call
CallTo(C, item) ==
    /\ call = NoCall
    /\ call' = [op |-> "To", C |-> C, item |-> item, out |-> To(C, item)]
    /\ UNCHANGED listVars

\* a call of ToList[C](items)
CallToList(C, items) ==
    /\ call = NoCall
    /\ call' = [op |-> "ToList", C |-> C, items |-> items,
                out |-> ToList(C, items)]
    /\ UNCHANGED listVars

\* ------------------------------------------------------ the specifications
RECURSIVE SeqsUpTo(_, _)
SeqsUpTo(S, n) ==
    IF n = 0 THEN {<<>>}
    ELSE LET shorter == SeqsUpTo(S, n - 1)
         IN shorter \cup {Append(s, x) : s \in shorter, x \in S}

\* the values given to SetMaxWorkers: the default, zero and two caps
WorkerValues == {DefaultWorkers, 0, 1, 2}
Filters == {"nil", StoryType}

InitList(idLists, workers, filters) ==
    /\ ids \in idLists
    /\ filter \in filters
    /\ maxWorkers \in workers
    /\ mainPc = "start"
    /\ next = 1
    /\ pc = [i \in 1..Len(ids) |-> "idle"]
    /\ res = [i \in 1..Len(ids) |-> NoErr]
    /\ processed = <<>>
    /\ closed = FALSE
    /\ collPc = "idle"
    /\ itemsMap = <<>>
    /\ ctxDone = FALSE
    /\ gerr = NoErr
    /\ ret = NoRet
    /\ call = NoCall

\* the IDs the small retrievals ask for: two stories and a comment between
SmallIds == {1, 2, 3}

Init == InitList(SeqsUpTo(SmallIds, MaxLen), WorkerValues, Filters)

ListNext ==
    \/ ListStart
    \/ GoTask
    \/ \E i \in Tasks : GetReturn(i)
    \/ \E i \in Tasks : TaskSend(i)
    \/ \E i \in Tasks : TaskReturn(i)
    \/ CollectorRecv
    \/ CollectorClosed
    \/ CollectorCancel
    \/ MainWait
    \/ MainClose
    \/ MainCollect

Next == ListNext

Spec == Init /\ [][Next]_vars

\* A retrieval of more IDs than 'processed' buffers, under a worker cap.
LongIds == [i \in 1..(ProcessedCap + LongExtra) |-> i]
PositiveCaps == {1, 2}

InitLong == InitList({LongIds}, PositiveCaps, {"nil"})

SpecLong == InitLong /\ [][Next]_vars

\* A retrieval of CapIds IDs under a worker cap of 1 or 2.
InitCap == InitList({[i \in 1..CapIds |-> i]}, PositiveCaps, {"nil"})

SpecCap == InitCap /\ [][Next]_vars

\* The Items given to To and ToList: two IDs under every known tag and
\* under tags no variant has.
ConvItems == {MakeItem(id, t) : id \in 1..MaxConvId, t \in KnownTags \cup OtherTags}

InitConv == InitList({<<>>}, {DefaultWorkers}, {"nil"})

NextConv ==
    \/ /\ call = NoCall
       /\ \E C \in Variants, item \in ConvItems : CallTo(C, item)
    \/ /\ call = NoCall
       /\ \E C \in Variants, items \in SeqsUpTo(ConvItems, MaxConvLen) :
             CallToList(C, items)

SpecConv == InitConv /\ [][NextConv]_vars

\* ------------------------------------------------------------- sorting
\* const ( Ascending Order = iota; Descending )
Ascending == 0
Descending == 1

\* cmp.Compare
Compare(x, y) == IF x < y THEN -1 ELSE IF x > y THEN 1 ELSE 0

\* the order cmp.Compare gives the type tags (strings compare byte-wise)
TagRank(tag) ==
    CASE tag = AskType -> 1
      [] tag = CommentType -> 2
      [] tag = JobType -> 3
      [] tag = PollType -> 4
      [] tag = PollOptionType -> 5
      [] tag = StoryType -> 6

\* Timestamp.UnixNano() of a time given in seconds
UnixNano(t) == t * 1000000000

\* getID(), getScore(), getTime().UnixNano(), getType() as compared
KeyOf(field, item) ==
    CASE field = "ID" -> item.ID
      [] field = "Score" -> item.Score
      [] field = "Time" -> UnixNano(item.Time)
      [] field = "Type" -> TagRank(item.Type)

\* the comparison functions the Sort* functions pass to Sort: the field
\* compared, and whether the arguments are swapped (Descending)
CmpFunc(field, swapped) == [field |-> field, swapped |-> swapped]

ApplyCmp(c, a, b) ==
    IF c.swapped THEN Compare(KeyOf(c.field, b), KeyOf(c.field, a))
    ELSE Compare(KeyOf(c.field, a), KeyOf(c.field, b))

Swap(data, i, j) == [data EXCEPT ![i] = data[j], ![j] = data[i]]

\* slices.SortStableFunc on fewer than 20 elements is one insertion sort:
\* for i := a + 1; i < b; i++ {
\*     for j := i; j > a && cmp(data[j], data[j-1]) < 0; j-- { swap } }
RECURSIVE SiftDown(_, _, _)
SiftDown(data, j, c) ==
    IF j > 1 /\ ApplyCmp(c, data[j], data[j - 1]) < 0
      THEN SiftDown(Swap(data, j, j - 1), j - 1, c)
      ELSE data

RECURSIVE InsertionSort(_, _, _)
InsertionSort(data, i, c) ==
    IF i > Len(data) THEN data
    ELSE InsertionSort(SiftDown(data, i, c), i + 1, c)

\* Sort(items, sort)
Sort(items, c) == InsertionSort(items, 2, c)

RECURSIVE ReverseSeq(_)
ReverseSeq(s) == IF s = <<>> THEN <<>> ELSE Append(ReverseSeq(Tail(s)), Head(s))

Sorted(out) == [out |-> out, printed |-> "", panic |-> FALSE]
InvalidOrder(items) ==
    [out |-> items, printed |-> "Invalid sort order", panic |-> FALSE]

\* switch order { case Ascending: ... case Descending: ... default: Printf }
SortBy(field, items, order) ==
    CASE order = Ascending -> Sorted(Sort(items, CmpFunc(field, FALSE)))
      [] order = Descending -> Sorted(Sort(items, CmpFunc(field, TRUE)))
      [] OTHER -> InvalidOrder(items)

SortIDDefaults(items, order) ==
    IF order = Descending THEN Sorted(Sort(items, CmpFunc("ID", TRUE)))
    ELSE Sorted(Sort(items, CmpFunc("ID", FALSE)))
SortID(items, order) == SortBy("ID", items, order)

SortScoreReverses(items, order) ==
    CASE order = Ascending -> Sorted(Sort(items, CmpFunc("Score", FALSE)))
      [] order = Descending ->
           Sorted(ReverseSeq(Sort(items, CmpFunc("Score", FALSE))))
      [] OTHER -> InvalidOrder(items)
SortScore(items, order) == SortBy("Score", items, order)

SortTime(items, order) == SortBy("Time", items, order)

SortType(items, order) == SortBy("Type", items, order)

SortFuncs == {"ID", "Score", "Time", "Type"}

\* a call of SortID, SortScore, SortTime or SortType on a slice
CallSort(fn, items, order) ==
    /\ call = NoCall
    /\ call' = [op |-> "Sort", fn |-> fn, items |-> items, order |-> order,
                res |-> CASE fn = "ID" -> SortID(items, order)
                          [] fn = "Score" -> SortScore(items, order)
                          [] fn = "Time" -> SortTime(items, order)
                          [] fn = "Type" -> SortType(items, order)]
    /\ UNCHANGED listVars

\* The values the keys take (the scores 1, 3, 5 of the examples), and the
\* items sorted: the ID and the type vary with one of them, the score and
\* the time (0, 1 or 2 seconds) with the other, so that items equal under
\* one key differ.
SortKeys == {1, 3, 5}
TagOfKey(k) ==
    CASE k = 1 -> StoryType [] k = 3 -> CommentType [] OTHER -> AskType
SortItem(a, b) == [ID |-> a, By |-> "u", Score |-> b,
                   Time |-> (b - 1) \div 2, Type |-> TagOfKey(a)]
SortItems == {SortItem(a, b) : a \in SortKeys, b \in SortKeys}

\* Ascending, Descending and two values that are neither
Orders == {-1, Ascending, Descending, 2}

InitSort == InitList({<<>>}, {DefaultWorkers}, {"nil"})

NextSort ==
    /\ call = NoCall
    /\ \E fn \in SortFuncs, order \in Orders,
          items \in SeqsUpTo(SortItems, MaxSortLen) :
            CallSort(fn, items, order)

SpecSort == InitSort /\ [][NextSort]_vars

\* ------------------------------------------------------------ the claims
Distinct(s) == \A i, j \in 1..Len(s) : i # j => s[i] # s[j]
AllDone == \A i \in Tasks : pc[i] = "done"
Returned == mainPc = "returned"

\* the records of the tasks whose fetch succeeded and whose record the filter
\* accepts, in the order of ids
RECURSIVE Survivors(_)
Survivors(k) ==
    IF k > Len(ids) THEN <<>>
    ELSE (IF res[k] = NoErr /\ Include(UpstreamItem(ids[k]))
            THEN <<UpstreamItem(ids[k])>> ELSE <<>>) \o Survivors(k + 1)

\* C1: when List has returned for a non-empty list of distinct IDs with no
\* filter and every Get succeeded, the error is nil and the result holds
\* exactly one record per ID, in the order of ids.
C1_Completeness ==
    (Returned /\ ids # <<>> /\ Distinct(ids) /\ filter = "nil"
        /\ \A i \in Tasks : pc[i] = "done" /\ res[i] = NoErr)
    => /\ ret.err = NoErr
       /\ ret.items = Result([i \in Tasks |-> UpstreamItem(ids[i])])

\* C2: when List has returned and at least one fetch ended with ErrNotFound
\* while every other fetch succeeded, the error is nil and the result is
\* the records of the other IDs in their input order.
C2_NotFoundNonFatal ==
    (Returned /\ AllDone /\ (\E i \in Tasks : res[i] = ErrNotFound)
        /\ \A i \in Tasks : res[i] \in {NoErr, ErrNotFound})
    => /\ ret.err = NoErr
       /\ ret.items = Result(Survivors(1))

\* C3: once a fetch has failed fatally, List has returned or some goroutine
\* of the retrieval can still take a step: the retrieval is never stuck
\* with a task blocked for good.
C3_TerminatesAfterFatal ==
    (\E i \in Tasks : res[i].kind = "fatal")
    => (Returned \/ ENABLED Next)

\* C4: with a non-positive worker cap the loop that starts the tasks is
\* never blocked: whenever it has an ID left, g.Go admits the task.
C4_NonPositiveCapUnbounded ==
    (maxWorkers <= 0 /\ mainPc = "loop") => ENABLED GoTask

\* C5: when List has returned and some fetch ended with a transport or
\* decode error, List returned a non-nil error and a nil result.
C5_AllOrNothing ==
    (Returned /\ \E i \in Tasks : res[i].kind = "fatal")
    => (ret.err # NoErr /\ ret.items = NilResult)

\* C5's case: a fetch failed fatally after another task's record had been
\* collected into itemsMap, and List has returned.
C5_Witness ==
    /\ Returned
    /\ \E i \in Tasks : res[i].kind = "fatal"
    /\ DOMAIN itemsMap # {}

\* s is a subsequence of t (the order of t kept)
RECURSIVE IsSubseq(_, _)
IsSubseq(s, t) ==
    IF s = <<>> THEN TRUE
    ELSE IF t = <<>> THEN FALSE
    ELSE IF Head(s) = Head(t) THEN IsSubseq(Tail(s), Tail(t))
    ELSE IsSubseq(s, Tail(t))

RetIds == [k \in 1..Len(ret.items.elems) |-> ret.items.elems[k].ID]

\* C6: when List has returned a nil error, the IDs of the result are a
\* subsequence of ids, every record of the result was fetched successfully by
\* a task of that ID, and the filter (when there is one) accepts it.
C6_SoundAndOrdered ==
    (Returned /\ ret.err = NoErr)
    => /\ IsSubseq(RetIds, ids)
       /\ \A k \in 1..Len(ret.items.elems) :
            LET item == ret.items.elems[k]
            IN /\ \E i \in Tasks :
                    /\ ids[i] = item.ID
                    /\ res[i] = NoErr
                    /\ pc[i] = "done"
                    /\ item = UpstreamItem(ids[i])
               /\ (filter = "nil" \/ item.Type = filter)

\* C6's case: a filtered retrieval returned two records, not in ascending
\* ID order, and left out a fetched record the filter rejected.
C6_Witness ==
    /\ Returned
    /\ ret.err = NoErr
    /\ filter = StoryType
    /\ Len(ret.items.elems) = 2
    /\ ret.items.elems[1].ID > ret.items.elems[2].ID
    /\ \E i \in Tasks : res[i] = NoErr /\ pc[i] = "done"
                          /\ TypeOf(ids[i]) = CommentType

\* C7: under a positive cap, the tasks started and not yet returned are at
\* most maxWorkers.
C7_CapRespected == maxWorkers > 0 => InFlight <= maxWorkers

\* C7's case: the cap is 2, two tasks are in flight and the loop waits with
\* IDs left to start.
C7_Witness ==
    /\ maxWorkers = 2
    /\ InFlight = 2
    /\ mainPc = "loop"
    /\ next <= Len(ids)
    /\ Len(ids) >= 10

\* C8: the recorded error never changes once set, it is set by the task
\* that returns an error while none is recorded, and it is the error List
\* returns.
C8_FirstErrorWins ==
    [][/\ (gerr # NoErr => gerr' = gerr)
       /\ (gerr = NoErr /\ gerr' # NoErr
             => \E i \in Tasks : /\ pc[i] = "ret" /\ pc'[i] = "done"
                                 /\ gerr' = res[i]
                                 /\ \A j \in Tasks :
                                      pc[j] = "done" => res[j] = NoErr)
       /\ (~Returned /\ Returned' /\ gerr # NoErr => ret'.err = gerr)]_vars

\* C8's case: List returned the fatal error of one task although another
\* task ended later with the cancellation error and a third with its own.
C8_Witness ==
    /\ Returned
    /\ ret.err.kind = "fatal"
    /\ \E j \in Tasks : pc[j] = "done" /\ res[j].kind = "canceled"
    /\ \E j \in Tasks : pc[j] = "done" /\ res[j].kind = "fatal"
                          /\ res[j] # ret.err

\* the Items of s whose Type is tag, in the order of s
RECURSIVE OfType(_, _)
OfType(tag, s) ==
    IF s = <<>> THEN <<>>
    ELSE (IF Head(s).Type = tag THEN <<Head(s)>> ELSE <<>>)
             \o OfType(tag, Tail(s))

\* the projection of an Item onto variant C
Narrow(C, item) ==
    CASE C = "Story" -> ToStory(item)
      [] C = "Comment" -> ToComment(item)
      [] C = "Ask" -> ToAsk(item)
      [] C = "Job" -> ToJob(item)
      [] C = "Poll" -> ToPoll(item)
      [] C = "PollOption" -> ToPollOption(item)

\* C9: ToList[C](items) is the projections onto C of the Items whose Type is
\* C's tag, in their order in items; every other Item is dropped.
C9_ToListNarrows ==
    call.op = "ToList"
    => LET keep == OfType(TagOf(call.C), call.items)
       IN call.out = [k \in 1..Len(keep) |-> Narrow(call.C, keep[k])]

\* C9's case: [story, comment, story] narrowed to Story gives the two
\* stories in their order.
C9_Witness ==
    /\ call.op = "ToList"
    /\ call.C = "Story"
    /\ Len(call.items) = 3
    /\ call.items[1].Type = StoryType
    /\ call.items[2].Type = CommentType
    /\ call.items[3].Type = StoryType
    /\ call.items[1].ID # call.items[3].ID
    /\ Len(call.out) = 2

\* C10: To[C](item) succeeds when item.Type is C's tag, fails with the
\* type-mismatch error when item.Type is another known tag, and fails with
\* the unsupported-type error when item.Type is no known tag.
C10_ToErrorClasses ==
    call.op = "To"
    => LET t == call.item.Type
       IN /\ t = TagOf(call.C) => call.out.err = "nil"
          /\ t \in KnownTags \ {TagOf(call.C)} => call.out.err = "mismatched"
          /\ t \notin KnownTags => call.out.err = "unsupported"

\* the items of s whose key under field is k, in the order of s
WithKey(field, k, s) == SelectSeq(s, LAMBDA x : KeyOf(field, x) = k)

KeysOf(field, s) == {KeyOf(field, s[i]) : i \in 1..Len(s)}

\* C11: for Ascending and Descending, the result of SortID, SortScore,
\* SortTime and SortType has the length of the input, is ordered by the
\* chosen key in that direction, and holds for every key value the input's
\* items of that key in the input's relative order (so it is a permutation
\* of the input in which items of equal keys keep their order).
C11_StableBothDirections ==
    (call.op = "Sort" /\ call.order \in {Ascending, Descending})
    => LET out == call.res.out
           f == call.fn
       IN /\ Len(out) = Len(call.items)
          /\ \A i, j \in 1..Len(out) :
               i < j => IF call.order = Ascending
                          THEN KeyOf(f, out[i]) <= KeyOf(f, out[j])
                          ELSE KeyOf(f, out[i]) >= KeyOf(f, out[j])
          /\ \A k \in KeysOf(f, call.items) \cup KeysOf(f, out) :
               WithKey(f, k, out) = WithKey(f, k, call.items)

\* C11's case: SortScore, Descending, on scores [1,3,5,5] gives [5,5,3,1]
\* with the two different score-5 items in their input order.
C11_Witness ==
    /\ call.op = "Sort"
    /\ call.fn = "Score"
    /\ call.order = Descending
    /\ Len(call.items) = 4
    /\ [i \in 1..4 |-> call.items[i].Score] = <<1, 3, 5, 5>>
    /\ call.items[3] # call.items[4]
    /\ [i \in 1..4 |-> call.res.out[i].Score] = <<5, 5, 3, 1>>
    /\ call.res.out[1] = call.items[3]
    /\ call.res.out[2] = call.items[4]

\* C12: for an order that is neither Ascending nor Descending, each of
\* SortID, SortScore, SortTime and SortType prints 'Invalid sort order',
\* does not panic and leaves the slice as it was.
C12_InvalidOrderReported ==
    (call.op = "Sort" /\ call.order \notin {Ascending, Descending})
    => /\ call.res.printed = "Invalid sort order"
       /\ ~call.res.panic
       /\ call.res.out = call.items

\* C12's case: SortID with an invalid order on a slice that is sorted in
\* neither direction.
C12_Witness ==
    /\ call.op = "Sort"
    /\ call.fn = "ID"
    /\ call.order \notin {Ascending, Descending}
    /\ Len(call.items) = 3
    /\ call.items[1].ID > call.items[2].ID
    /\ call.items[2].ID < call.items[3].ID
    /\ call.res.out = call.items

====
